---- MODULE Spec2Model ----
(***************************************************************************)
(* Model of the log viewer of thesimulationlog.com (src/script.js): the   *)
(* manifest/shard store (fetchManifest, loadDataset, rebuildAllLogs), the *)
(* period buttons, the filter controls, the filter/sort engine            *)
(* (getFilteredLogs, parseSimDate) and the two renderers (renderLogs,     *)
(* renderTicker).                                                         *)
(*                                                                         *)
(* JavaScript strings that the code inspects character by character       *)
(* (toLowerCase, includes, match) are sequences of one-character strings; *)
(* strings that the code only compares with === are TLA+ strings.         *)
(***************************************************************************)
EXTENDS Integers, Sequences, FiniteSets, TLC

(***************************************************************************)
(* Bounds of the model.                                                    *)
(***************************************************************************)
\* shard fetches of one session that the model follows (the code has no limit)
MaxFetch == 2
\* entries of activeFilters.selectedPeriods, those that pending loads will
\* push included, that the model follows
MaxSelected == 2

(***************************************************************************)
(* Strings.                                                                *)
(***************************************************************************)
\* String.prototype.toLowerCase, one character
lowerChar(c) ==
    CASE c = "A" -> "a" [] c = "B" -> "b" [] c = "C" -> "c" [] c = "D" -> "d"
      [] c = "E" -> "e" [] c = "F" -> "f" [] c = "G" -> "g" [] c = "H" -> "h"
      [] c = "I" -> "i" [] c = "J" -> "j" [] c = "K" -> "k" [] c = "L" -> "l"
      [] c = "M" -> "m" [] c = "N" -> "n" [] c = "O" -> "o" [] c = "P" -> "p"
      [] c = "Q" -> "q" [] c = "R" -> "r" [] c = "S" -> "s" [] c = "T" -> "t"
      [] c = "U" -> "u" [] c = "V" -> "v" [] c = "W" -> "w" [] c = "X" -> "x"
      [] c = "Y" -> "y" [] c = "Z" -> "z" [] OTHER -> c

\* String.prototype.toLowerCase
toLowerCase(s) == [i \in 1..Len(s) |-> lowerChar(s[i])]

\* String.prototype.includes: sub occurs in s as a contiguous run
includes(s, sub) ==
    \E i \in 0..(Len(s) - Len(sub)) : SubSeq(s, i + 1, i + Len(sub)) = sub

\* the character class [\d\.] of the pattern in parseSimDate
isNumChar(c) == c \in {"0", "1", "2", "3", "4", "5", "6", "7", "8", "9", "."}

isDigit(c) == c \in {"0", "1", "2", "3", "4", "5", "6", "7", "8", "9"}

digitVal(c) ==
    CASE c = "0" -> 0 [] c = "1" -> 1 [] c = "2" -> 2 [] c = "3" -> 3
      [] c = "4" -> 4 [] c = "5" -> 5 [] c = "6" -> 6 [] c = "7" -> 7
      [] c = "8" -> 8 [] c = "9" -> 9

\* length of the longest prefix of s, from position i on, whose characters
\* all satisfy the class (digits only, or digits and dots)
RECURSIVE runLen(_, _, _)
runLen(s, i, dotsToo) ==
    IF i > Len(s) THEN 0
    ELSE IF (IF dotsToo THEN isNumChar(s[i]) ELSE isDigit(s[i]))
         THEN 1 + runLen(s, i + 1, dotsToo)
         ELSE 0

\* lower.match(/([\d\.]+)/): the first (leftmost, longest) run of digits and
\* dots; the empty sequence stands for "no match" (null)
matchNumRun(s) ==
    LET starts == {i \in 1..Len(s) : isNumChar(s[i])}
    IN  IF starts = {} THEN <<>>
        ELSE LET i == CHOOSE j \in starts : \A k \in starts : j <= k
             IN  SubSeq(s, i, i + runLen(s, i, TRUE) - 1)

\* the decimal value of a sequence of digits
RECURSIVE digitsVal(_)
digitsVal(ds) ==
    IF ds = <<>> THEN 0
    ELSE 10 * digitsVal(SubSeq(ds, 1, Len(ds) - 1)) + digitVal(ds[Len(ds)])

RECURSIVE pow10(_)
pow10(k) == IF k <= 0 THEN 1 ELSE 10 * pow10(k - 1)

(***************************************************************************)
(* Numbers.  A JavaScript number is NaN, -Infinity, or the finite value   *)
(* (-1)^neg * n * 10^e: a decimal mantissa and exponent, so that          *)
(* "4.5 Billion" is n = 45, e = 8 and needs no wide integer.              *)
(***************************************************************************)
NaN == [kind |-> "nan", neg |-> FALSE, n |-> 0, e |-> 0]

NegInfinity == [kind |-> "ninf", neg |-> TRUE, n |-> 0, e |-> 0]

Num(neg, n, e) == [kind |-> "num", neg |-> neg, n |-> n, e |-> e]

\* the integer literal k of the source
IntNum(k) == IF k < 0 THEN Num(TRUE, -k, 0) ELSE Num(FALSE, k, 0)

\* parseFloat on a run of digits and dots: the longest prefix that is a
\* decimal literal (digits, then optionally a dot and digits); NaN when that
\* prefix holds no digit
parseFloat(run) ==
    LET il == runLen(run, 1, FALSE)
        hasDot == il < Len(run) /\ run[il + 1] = "."
        fl == IF hasDot THEN runLen(run, il + 2, FALSE) ELSE 0
    IN  IF il + fl = 0 THEN NaN
        ELSE Num(FALSE,
                 digitsVal(SubSeq(run, 1, il) \o SubSeq(run, il + 2, il + 1 + fl)),
                 -fl)

\* val *= 10^k
timesPow10(v, k) == IF v.kind = "num" THEN [v EXCEPT !.e = @ + k] ELSE v

\* the negation left out
negate_skipped(v) == v

\* val *= -1
negate(v) == IF v.kind = "num" THEN [v EXCEPT !.neg = ~@] ELSE v

RECURSIVE numDigits(_)
numDigits(n) == IF n < 10 THEN 1 ELSE 1 + numDigits(n \div 10)

\* sign of |a| - |b| for finite a, b
cmpMagnitude(a, b) ==
    IF a.n = 0 /\ b.n = 0 THEN 0
    ELSE IF a.n = 0 THEN -1
    ELSE IF b.n = 0 THEN 1
    ELSE LET da == numDigits(a.n)
             db == numDigits(b.n)
             ta == da + a.e
             tb == db + b.e
             L  == IF da > db THEN da ELSE db
             ma == a.n * pow10(L - da)
             mb == b.n * pow10(L - db)
         IN  IF ta # tb THEN (IF ta < tb THEN -1 ELSE 1)
             ELSE IF ma < mb THEN -1 ELSE IF ma > mb THEN 1 ELSE 0

\* sign of a - b for finite a, b (-0 equals 0)
cmpFinite(a, b) ==
    LET na == a.neg /\ a.n # 0
        nb == b.neg /\ b.n # 0
    IN  IF na /\ ~nb THEN -1
        ELSE IF ~na /\ nb THEN 1
        ELSE IF na THEN -cmpMagnitude(a, b)
        ELSE cmpMagnitude(a, b)

\* the sign of the JavaScript difference a - b: -1, 0, 1, or "nan" as 2
\* (NaN - x, x - NaN and -Infinity - -Infinity are NaN)
NaNSign == 2

subSign(a, b) ==
    IF a.kind = "nan" \/ b.kind = "nan" THEN NaNSign
    ELSE IF a.kind = "ninf" /\ b.kind = "ninf" THEN NaNSign
    ELSE IF a.kind = "ninf" THEN -1
    ELSE IF b.kind = "ninf" THEN 1
    ELSE cmpFinite(a, b)

\* the JavaScript relations a <= b and a >= b (false when either is NaN)
numLeq(a, b) ==
    /\ a.kind # "nan" /\ b.kind # "nan"
    /\ \/ a.kind = "ninf"
       \/ a.kind = "num" /\ b.kind = "num" /\ cmpFinite(a, b) <= 0

numGeq(a, b) == numLeq(b, a)

(***************************************************************************)
(* parseSimDate (src/script.js:142-167).                                   *)
(***************************************************************************)
PresentYear == 2026

FutureYear == 3000

BillionExp == 9

MillionExp == 6

\* parseSimDate(dateString); the empty sequence stands for a missing or
\* empty date (both are falsy)
parseSimDate(dateString) ==
    IF dateString = <<>> THEN NegInfinity
    ELSE LET lower == toLowerCase(dateString)
         IN  IF includes(lower, <<"p", "r", "e", "s", "e", "n", "t">>) THEN IntNum(PresentYear)
             ELSE IF includes(lower, <<"f", "u", "t", "u", "r", "e">>) \/ includes(lower, <<"n", "e", "a", "r", " ", "f", "u", "t", "u", "r", "e">>)
                  THEN IntNum(FutureYear)
             ELSE LET match == matchNumRun(lower)
                  IN  IF match = <<>> THEN IntNum(0)
                      ELSE LET val0 == parseFloat(match)
                               val1 == IF includes(lower, <<"b", "i", "l", "l", "i", "o", "n">>)
                                       THEN timesPow10(val0, BillionExp)
                                       ELSE IF includes(lower, <<"m", "i", "l", "l", "i", "o", "n">>)
                                            THEN timesPow10(val0, MillionExp)
                                            ELSE val0
                           IN  IF includes(lower, <<"a", "g", "o">>) \/ includes(lower, <<"b", "c">>)
                               THEN negate(val1)
                               ELSE val1

(***************************************************************************)
(* The files the server holds: a manifest and two shards.  A log record   *)
(* carries the attributes that the filter, the sort and the ticker read.  *)
(***************************************************************************)
YearFile == "yearly/2026.json"

EraFile == "eras/ancient.json"

Files == {YearFile, EraFile}

LogRecord(id, version, date, title, description, type, region, importance, is_active, keywords) ==
    [id |-> id, version |-> version, date |-> date, title |-> title,
     description |-> description, type |-> type, region |-> region,
     importance |-> importance, is_active |-> is_active, keywords |-> keywords]

RecLive ==
    LogRecord(1, <<"2", ".", "0">>, <<"P", "r", "e", "s", "e", "n", "t">>, <<"L", "i", "v", "e">>, <<"n", "o", "w">>, "Feature", <<"M", "o", "o", "n", "_", "B", "a", "s", "e">>,
              "high", TRUE, <<>>)

RecWar ==
    LogRecord(2, <<"1", ".", "9">>, <<"1", "9", "4", "5">>, <<"W", "a", "r">>, <<"e", "n", "d">>, "Patch", <<"E", "u", "r", "o", "p", "e", "_", "W", "e", "s", "t">>,
              "high", FALSE, <<>>)

RecMars ==
    LogRecord(3, <<"3", ".", "0">>, <<"n", "e", "a", "r", " ", "f", "u", "t", "u", "r", "e">>, <<"D", "o", "m", "e">>, <<"b", "u", "i", "l", "t">>, "Feature",
              <<"M", "a", "r", "s", "_", "C", "o", "l", "o", "n", "y">>, "low", TRUE, <<<<"W", "a", "r", "p">>>>)

RecImpact ==
    LogRecord(4, <<"0", ".", "2">>, <<"6", "5", " ", "M", "i", "l", "l", "i", "o", "n", " ", "B", "C">>, <<"I", "m", "p", "a", "c", "t">>, <<"r", "o", "c", "k">>, "Critical Event",
              <<"G", "l", "o", "b", "a", "l", "_", "E", "a", "r", "t", "h">>, "high", FALSE, <<>>)

RecVoid ==
    LogRecord(5, <<"0", ".", "0">>, <<>>, <<"V", "o", "i", "d">>, <<"g", "a", "p">>, "Patch", <<"E", "u", "r", "o", "p", "e", "_", "W", "e", "s", "t">>,
              "low", FALSE, <<<<"w", "a", "r">>>>)

RecCirca ==
    LogRecord(6, <<"0", ".", "5">>, <<"c", ".", " ", "3", "0", "0", " ", "B", "C">>, <<"R", "o", "m", "e">>, <<"c", "i", "t", "y">>, "Patch", <<"E", "u", "r", "o", "p", "e", "_", "S", "o", "u", "t", "h">>,
              "high", FALSE, <<>>)

\* logs/manifest.json, with and without an entry for the current year
ManifestOf(current_year) ==
    [current_year |-> current_year,
     years_available |-> <<[year |-> 2026, file |-> YearFile]>>,
     eras |-> <<[name |-> "Ancient", file |-> EraFile]>>]

\* what the server holds during one session
Servers ==
    { [manifest |-> ManifestOf(2026),
       shards |-> [f \in Files |->
                     IF f = YearFile THEN <<RecLive>> ELSE <<RecWar, RecMars>>]],
      [manifest |-> ManifestOf(2027),
       shards |-> [f \in Files |->
                     IF f = YearFile THEN <<RecImpact, RecVoid>>
                     ELSE <<RecCirca>>]] }

\* what the user can type into the search box and pick in the selects
SearchInputs == {<<>>, <<"W", "A", "R">>}

RegionInputs == {<<"a", "l", "l">>, <<"s", "o", "l", "_", "s", "y", "s", "t", "e", "m">>, <<"e", "u", "r", "o", "p", "e">>}

SortInputs == {"date-desc", "date-asc"}

(***************************************************************************)
(* State (src/script.js:14-25, and the parts of the page the code writes). *)
(***************************************************************************)
VARIABLES
    server,         \* the files of the server, fixed for the session
    manifest,       \* <<>> for null, <<m>> once loaded
    loadedKeys,     \* the keys of loadedData, in insertion order
    loadedData,     \* the value under each key (<<>> under an absent key)
    allLogs,        \* the merged array
    activeFilters,  \* search, selectedPeriods, region, criticalOnly, verbose, sort
    mpc,            \* where fetchManifest stands
    inflight,       \* the loadDataset calls suspended at an await
    fetchCount,     \* fetch(`logs/${filePath}`) calls issued so far, per file
    cont,           \* <<>>, or <<c>>: the caller resumed next, after loadDataset returned
    buttons,        \* the period buttons of timeFilterContainer
    activeButtons,  \* the buttons carrying the class 'active'
    feed,           \* feedContainer
    logCount,       \* logCountElement: -1 for the text of the page, else N
    ticker,         \* tickerContent
    userActed,      \* whether any user event was handled so far
    oddClicks,      \* the period buttons clicked an odd number of times so far
    failedLoads,    \* the shards of which a fetch has failed so far
    input,          \* the argument of a helper called on its own (<<>>: none)
    output,         \* what that call returned (<<>>: not called yet)
    userInput,      \* userInput.value of the diagnostic tool
    runBtnDisabled, \* runDiagnosticBtn.disabled
    diagnosticOutput, \* the children of diagnosticOutput, in order
    runs,           \* the invocations of runDiagnostic, each with its position
    storedUserId,   \* localStorage 'simulation_user_id': <<>> or <<id>>
    postCount       \* POST requests issued to the diagnostic endpoint so far

\* the state of the log viewer
logVars == <<server, manifest, loadedKeys, loadedData, allLogs, activeFilters, mpc, inflight, fetchCount, cont, buttons, activeButtons, feed, logCount, ticker, userActed, oddClicks, failedLoads>>

\* what the session has seen, kept for the properties only
historyVars == <<oddClicks, failedLoads>>

\* a helper called on its own
callVars == <<input, output>>

\* the state of the diagnostic tool
diagVars == <<userInput, runBtnDisabled, diagnosticOutput, runs, storedUserId, postCount>>

vars == <<logVars, callVars, diagVars>>

storeVars == <<loadedKeys, loadedData, allLogs>>

displayVars == <<feed, logCount, ticker>>

\* an object created by response.json(): the record plus its identity
\* (the file, the number of the fetch that produced it, its index)
LogObject(rec, filePath, gen, ix) ==
    [id |-> rec.id, version |-> rec.version, date |-> rec.date,
     title |-> rec.title, description |-> rec.description, type |-> rec.type,
     region |-> rec.region, importance |-> rec.importance,
     is_active |-> rec.is_active, keywords |-> rec.keywords,
     ref |-> <<filePath, gen, ix>>]

\* the array that response.json() yields for the gen-th fetch of a shard
ResponseJson(filePath, gen) ==
    [i \in 1..Len(server.shards[filePath]) |->
        LogObject(server.shards[filePath][i], filePath, gen, i)]

\* Array.prototype.includes on an array of objects: identity of reference
includesObject(array, log) == \E i \in 1..Len(array) : array[i].ref = log.ref

\* Array.prototype.includes on selectedPeriods
includesFile(array, filePath) == \E i \in 1..Len(array) : array[i] = filePath

\* if (loadedData[filePath]): the key is present (every array is truthy)
IsLoaded(lk, filePath) == \E i \in 1..Len(lk) : lk[i] = filePath

RECURSIVE concatAll(_, _)
concatAll(lk, ld) ==
    IF lk = <<>> THEN <<>> ELSE ld[Head(lk)] \o concatAll(Tail(lk), ld)

\* rebuildAllLogs without its first line, allLogs = []
rebuildAllLogs_noReset(lk, ld) == allLogs \o concatAll(lk, ld)

\* rebuildAllLogs: the arrays of Object.values(loadedData), concatenated
rebuildAllLogs(lk, ld) == concatAll(lk, ld)

(***************************************************************************)
(* The filter/sort engine (src/script.js:170-230).                         *)
(***************************************************************************)
\* the period test looping over the cached shards in place of the selected
fromSelectedPeriod_anyLoaded(log, lk, ld, af) ==
    \E i \in 1..Len(lk) : includesObject(ld[lk[i]], log)

\* the log is in the loaded array of some selected period
fromSelectedPeriod(log, lk, ld, af) ==
    \E i \in 1..Len(af.selectedPeriods) :
        LET filePath == af.selectedPeriods[i]
        IN  IsLoaded(lk, filePath) /\ includesObject(ld[filePath], log)

\* the granularity test letting active records through
passesGranularity_unlessActive(log, af) ==
    ~(~af.verbose /\ log.importance = "low" /\ log.is_active # TRUE)

\* 1. Granularity
passesGranularity(log, af) == ~(~af.verbose /\ log.importance = "low")

\* 2. Search
matchesSearch(log, af) ==
    LET searchLower == toLowerCase(af.search)
    IN  \/ includes(toLowerCase(log.title), searchLower)
        \/ includes(toLowerCase(log.description), searchLower)
        \/ includes(toLowerCase(log.version), searchLower)
        \/ \E k \in 1..Len(log.keywords) :
              includes(toLowerCase(log.keywords[k]), searchLower)

SolSystemKeywords == {<<"m", "a", "r", "s">>, <<"m", "o", "o", "n">>, <<"s", "o", "l", "a", "r">>, <<"e", "a", "r", "t", "h">>, <<"g", "l", "o", "b", "a", "l", "_", "e", "a", "r", "t", "h">>}

\* the region test with equality for the loose substring match
matchesRegion_exact(log, af) ==
    LET logRegion == toLowerCase(log.region)
        filterRegion == toLowerCase(af.region)
    IN  IF filterRegion = <<"a", "l", "l">> THEN TRUE
        ELSE IF filterRegion = <<"s", "o", "l", "_", "s", "y", "s", "t", "e", "m">>
             THEN \E k \in SolSystemKeywords : includes(logRegion, k)
             ELSE logRegion = filterRegion

\* 3. Region
matchesRegion(log, af) ==
    LET logRegion == toLowerCase(log.region)
        filterRegion == toLowerCase(af.region)
    IN  IF filterRegion = <<"a", "l", "l">> THEN TRUE
        ELSE IF filterRegion = <<"s", "o", "l", "_", "s", "y", "s", "t", "e", "m">>
             THEN \E k \in SolSystemKeywords : includes(logRegion, k)
             ELSE includes(logRegion, filterRegion)

\* 4. Severity
matchesSeverity(log, af) ==
    \/ ~af.criticalOnly
    \/ log.type = "Critical Event"
    \/ log.is_active = TRUE

\* the callback with || for the first && of its last line
filterCallback_orSearch(log, lk, ld, af) ==
    IF ~fromSelectedPeriod(log, lk, ld, af) THEN FALSE
    ELSE IF ~passesGranularity(log, af) THEN FALSE
    ELSE matchesSearch(log, af) \/ (matchesRegion(log, af) /\ matchesSeverity(log, af))

\* the callback of allLogs.filter
filterCallback(log, lk, ld, af) ==
    IF ~fromSelectedPeriod(log, lk, ld, af) THEN FALSE
    ELSE IF ~passesGranularity(log, af) THEN FALSE
    ELSE matchesSearch(log, af) /\ matchesRegion(log, af) /\ matchesSeverity(log, af)

\* allLogs.filter(...): a new array
filterLogs(al, lk, ld, af) ==
    LET keep(log) == filterCallback(log, lk, ld, af)
    IN  SelectSeq(al, keep)

\* the comparator of filtered.sort on the two date values, as the sort reads
\* its result: the sign of the difference, a NaN result read as +0
compareValues(valA, valB, sort) ==
    LET v == IF sort = "date-asc" THEN subSign(valA, valB) ELSE subSign(valB, valA)
    IN  IF v = NaNSign THEN 0 ELSE v

\* the comparator orders values consistently (a strict weak order)
consistentComparator(vals, sort) ==
    \A i, j, k \in 1..Len(vals) :
        LET ab == compareValues(vals[i], vals[j], sort)
            bc == compareValues(vals[j], vals[k], sort)
            ac == compareValues(vals[i], vals[k], sort)
        IN  /\ ab = -compareValues(vals[j], vals[i], sort)
            /\ (ab = 0 /\ bc = 0) => ac = 0
            /\ (ab < 0 /\ bc < 0) => ac < 0
            /\ (ab < 0 /\ bc = 0) => ac < 0
            /\ (ab = 0 /\ bc < 0) => ac < 0

\* the stable sort: an element stands behind those below it and behind the
\* equal ones that came before it
stableSort(arr, vals, sort) ==
    LET n == Len(arr)
        before(i) == {j \in 1..n :
                        \/ compareValues(vals[j], vals[i], sort) < 0
                        \/ compareValues(vals[j], vals[i], sort) = 0 /\ j < i}
    IN  [k \in 1..n |-> arr[CHOOSE i \in 1..n : Cardinality(before(i)) = k - 1]]

permutationsOf(arr) ==
    { [i \in 1..Len(arr) |-> arr[p[i]]] :
        p \in {q \in [1..Len(arr) -> 1..Len(arr)] :
                 \A i, j \in 1..Len(arr) : q[i] = q[j] => i = j} }

\* parseSimDate(a.date), as the comparator computes it, for every element
dateValues(arr) == [i \in 1..Len(arr) |-> parseSimDate(arr[i].date)]

\* filtered.sort(...): the stable order under a consistent comparator; under
\* an inconsistent one the order is implementation-defined, any permutation
sortOutcomes(arr, sort) ==
    UNION { IF consistentComparator(vals, sort)
            THEN {stableSort(arr, vals, sort)}
            ELSE permutationsOf(arr) : vals \in {dateValues(arr)} }

\* getFilteredLogs(): the arrays it can return
getFilteredLogs(al, lk, ld, af) ==
    UNION { sortOutcomes(filtered, af.sort) : filtered \in {filterLogs(al, lk, ld, af)} }

(***************************************************************************)
(* The renderers (src/script.js:233-316).                                  *)
(***************************************************************************)
\* one <span> of the ticker: [version] title: description
tickerItem(log) ==
    [version |-> log.version, title |-> log.title, description |-> log.description]

isActiveLog(log) == log.is_active = TRUE

\* renderTicker without the repetition of the items
renderTicker_once(al) ==
    LET activeLogs == SelectSeq(al, isActiveLog)
    IN  IF Len(activeLogs) = 0
        THEN [kind |-> "placeholder", items |-> <<>>]
        ELSE [kind |-> "items",
              items |-> [i \in 1..Len(activeLogs) |-> tickerItem(activeLogs[i])]]

\* renderTicker: the new content of tickerContent
renderTicker(al) ==
    LET activeLogs == SelectSeq(al, isActiveLog)
        tickerItems == [i \in 1..Len(activeLogs) |-> tickerItem(activeLogs[i])]
    IN  IF Len(activeLogs) = 0
        THEN [kind |-> "placeholder", items |-> <<>>]
        ELSE [kind |-> "items", items |-> tickerItems \o tickerItems]

\* allLogs after filtered.sort(...) sorting the array that holds every
\* record in place, as if filter had handed back allLogs itself
allLogsAfterSort_inPlace(al, sorted) ==
    IF Len(sorted) = Len(al) THEN sorted ELSE al

\* allLogs after getFilteredLogs: sort works in place on the array that
\* allLogs.filter returned, a new array, so allLogs keeps its elements and
\* their order
allLogsAfterSort(al, sorted) == al

\* whether renderLogs goes on to renderTicker
reachesTicker(filtered) == Len(filtered) # 0

\* renderLogs on the store and filters given (those after the handler's
\* assignments): the count, the feed, and the ticker
renderLogs(al, lk, ld, af) ==
    \E filtered \in getFilteredLogs(al, lk, ld, af) :
        /\ logCount' = Len(filtered)
        /\ feed' = IF Len(filtered) = 0
                   THEN [kind |-> "no-results", cards |-> <<>>]
                   ELSE [kind |-> "cards", cards |-> filtered]
        /\ ticker' = IF reachesTicker(filtered) THEN renderTicker(al) ELSE ticker
        /\ allLogs' = allLogsAfterSort(al, filtered)

\* updateFilterButtonStates: the buttons whose file is selected
updateFilterButtonStates(btns, af) ==
    {b \in btns : includesFile(af.selectedPeriods, b)}

(***************************************************************************)
(* Initial state: the listener of DOMContentLoaded has run; fetchManifest  *)
(* is suspended at its fetch (src/script.js:14-25, 398).                   *)
(***************************************************************************)
InitLogs ==
    /\ server \in Servers
    /\ manifest = <<>>
    /\ loadedKeys = <<>>
    /\ loadedData = [f \in Files |-> <<>>]
    /\ allLogs = <<>>
    /\ activeFilters = [search |-> <<>>, selectedPeriods |-> <<>>,
                        region |-> <<"a", "l", "l">>, criticalOnly |-> FALSE,
                        verbose |-> FALSE, sort |-> "date-desc"]
    /\ mpc = "fetch"
    /\ inflight = {}
    /\ fetchCount = [f \in Files |-> 0]
    /\ cont = <<>>
    /\ buttons = {}
    /\ activeButtons = {}
    /\ feed = [kind |-> "page", cards |-> <<>>]
    /\ logCount = -1
    /\ ticker = [kind |-> "page", items |-> <<>>]
    /\ userActed = FALSE
    /\ oddClicks = {}
    /\ failedLoads = {}

\* no helper is called on its own
InitCall ==
    /\ input = <<>>
    /\ output = <<>>

\* the diagnostic tool before its first use (src/unnamed/part_000:443-448)
InitDiagnostic ==
    /\ userInput = <<>>
    /\ runBtnDisabled = FALSE
    /\ diagnosticOutput = <<>>
    /\ runs = <<>>
    /\ storedUserId = <<>>
    /\ postCount = 0

Init == InitLogs /\ InitCall /\ InitDiagnostic

(***************************************************************************)
(* loadDataset (src/script.js:55-71).                                      *)
(***************************************************************************)
\* the guard of loadDataset, testing the selection in place of the cache
alreadyLoaded_bySelection(filePath) ==
    includesFile(activeFilters.selectedPeriods, filePath)

\* the guard of loadDataset: the shard is in the cache
alreadyLoaded(filePath) == IsLoaded(loadedKeys, filePath)

\* loadDataset(filePath) up to its first await: it returns at once for a
\* cached shard (the caller resumes next), else it issues the fetch.  The
\* awaits of fetch and of response.json() are one suspension: loadDataset
\* reads and writes nothing between them
loadDataset(filePath, caller) ==
    IF alreadyLoaded(filePath)
    THEN /\ cont' = <<[caller |-> caller, file |-> filePath]>>
         /\ UNCHANGED <<inflight, fetchCount>>
    ELSE /\ inflight' = inflight \cup
                {[file |-> filePath, gen |-> fetchCount[filePath] + 1,
                  caller |-> caller]}
         /\ fetchCount' = [fetchCount EXCEPT ![filePath] = @ + 1]
         /\ cont' = <<>>

\* the fetch rejects, the response is not ok, or response.json() rejects:
\* the catch logs the error and loadDataset returns
LoadFails ==
    \E a \in inflight :
        /\ cont = <<>>
        /\ inflight' = inflight \ {a}
        /\ cont' = <<[caller |-> a.caller, file |-> a.file]>>
        /\ failedLoads' = failedLoads \cup {a.file}
        /\ UNCHANGED <<callVars, diagVars, oddClicks, server, manifest, storeVars, activeFilters, mpc, fetchCount, buttons, activeButtons, displayVars, userActed>>

\* the store keeping the newest shard only
keysAfterStore_newestOnly(lk, filePath) == <<filePath>>

\* the keys of loadedData after loadedData[filePath] = data
keysAfterStore(lk, filePath) ==
    IF IsLoaded(lk, filePath) THEN lk ELSE Append(lk, filePath)

\* the response is ok and response.json() resolves: the array is stored,
\* allLogs is rebuilt and loadDataset returns
JsonResolves ==
    \E a \in inflight :
        /\ cont = <<>>
        /\ loadedData' = [loadedData EXCEPT ![a.file] = ResponseJson(a.file, a.gen)]
        /\ loadedKeys' = keysAfterStore(loadedKeys, a.file)
        /\ allLogs' = rebuildAllLogs(loadedKeys', loadedData')
        /\ inflight' = inflight \ {a}
        /\ cont' = <<[caller |-> a.caller, file |-> a.file]>>
        /\ UNCHANGED <<callVars, diagVars, historyVars, server, manifest, activeFilters, mpc, fetchCount, buttons, activeButtons, displayVars, userActed>>

(***************************************************************************)
(* fetchManifest (src/script.js:30-52).                                    *)
(***************************************************************************)
\* manifest.years_available.find(y => y.year === manifest.current_year)?.file
\* as <<>> (undefined) or <<file>>
currentYearFile(m) ==
    LET hits == {i \in 1..Len(m.years_available) :
                    m.years_available[i].year = m.current_year}
    IN  IF hits = {} THEN <<>>
        ELSE <<m.years_available[CHOOSE i \in hits : \A j \in hits : i <= j].file>>

\* generateFilterButtons: one button per year and per era
generateFilterButtons(m) ==
    {m.years_available[i].file : i \in 1..Len(m.years_available)}
        \cup {m.eras[i].file : i \in 1..Len(m.eras)}

\* the manifest response arrives and is ok
ManifestResponds ==
    /\ mpc = "fetch"
    /\ mpc' = "json"
    /\ UNCHANGED <<callVars, diagVars, historyVars, server, manifest, storeVars, activeFilters, inflight, fetchCount, cont, buttons, activeButtons, displayVars, userActed>>

\* the catch of fetchManifest logging the error only
ManifestFails_logOnly ==
    /\ mpc \in {"fetch", "json"}
    /\ mpc' = "failed"
    /\ UNCHANGED <<callVars, diagVars, historyVars, server, manifest, storeVars, activeFilters, inflight, fetchCount, cont, buttons, activeButtons, displayVars, userActed>>

\* the manifest fetch rejects, its response is not ok, or its json()
\* rejects: the catch replaces the feed by the error message
ManifestFails ==
    /\ mpc \in {"fetch", "json"}
    /\ mpc' = "failed"
    /\ feed' = [kind |-> "error", cards |-> <<>>]
    /\ UNCHANGED <<callVars, diagVars, historyVars, server, manifest, storeVars, activeFilters, inflight, fetchCount, cont, buttons, activeButtons, logCount, ticker, userActed>>

\* the manifest is parsed: buttons are generated and the shard of the
\* current year, if there is one, is requested; else the feed is rendered
ManifestLoads ==
    /\ mpc = "json"
    /\ manifest' = <<server.manifest>>
    /\ buttons' = generateFilterButtons(server.manifest)
    /\ activeButtons' = {}
    /\ IF currentYearFile(server.manifest) # <<>>
       THEN /\ loadDataset(currentYearFile(server.manifest)[1], "startup")
            /\ mpc' = "load"
            /\ UNCHANGED <<allLogs, displayVars>>
       ELSE /\ renderLogs(allLogs, loadedKeys, loadedData, activeFilters)
            /\ mpc' = "done"
            /\ UNCHANGED <<inflight, fetchCount, cont>>
    /\ UNCHANGED <<callVars, diagVars, historyVars, server, loadedKeys, loadedData, activeFilters, userActed>>

\* activeFilters.selectedPeriods.push(filePath)
pushPeriod(af, filePath) ==
    [af EXCEPT !.selectedPeriods = Append(@, filePath)]

\* fetchManifest resumes behind await loadDataset(currentYearFile)
ResumeStartup ==
    /\ cont # <<>>
    /\ cont[1].caller = "startup"
    /\ activeFilters' = pushPeriod(activeFilters, cont[1].file)
    /\ activeButtons' = updateFilterButtonStates(buttons, activeFilters')
    /\ renderLogs(allLogs, loadedKeys, loadedData, activeFilters')
    /\ mpc' = "done"
    /\ cont' = <<>>
    /\ UNCHANGED <<callVars, diagVars, historyVars, server, manifest, loadedKeys, loadedData, inflight, fetchCount, buttons, userActed>>

(***************************************************************************)
(* The period buttons (src/script.js:101-126).                             *)
(***************************************************************************)
\* selectedPeriods.filter(f => f !== filePath)
removePeriod(af, filePath) ==
    LET other(f) == f # filePath
    IN  [af EXCEPT !.selectedPeriods = SelectSeq(@, other)]

\* the buttons clicked an odd number of times, after one more click
clicked(odd, filePath) ==
    IF filePath \in odd THEN odd \ {filePath} ELSE odd \cup {filePath}

\* a click on the button of a selected period: it is removed
ClickSelected ==
    \E filePath \in buttons :
        /\ cont = <<>>
        /\ includesFile(activeFilters.selectedPeriods, filePath)
        /\ activeFilters' = removePeriod(activeFilters, filePath)
        /\ activeButtons' = updateFilterButtonStates(buttons, activeFilters')
        /\ renderLogs(allLogs, loadedKeys, loadedData, activeFilters')
        /\ userActed' = TRUE
        /\ oddClicks' = clicked(oddClicks, filePath)
        /\ UNCHANGED <<callVars, diagVars, failedLoads, server, manifest, loadedKeys, loadedData, mpc, inflight, fetchCount, cont, buttons>>

\* the shard fetches issued so far in the session
fetchesIssued == fetchCount[YearFile] + fetchCount[EraFile]

\* a click on the button of a period that is not selected: the handler runs
\* up to await loadDataset(filePath)
ClickUnselected ==
    \E filePath \in buttons :
        /\ cont = <<>>
        /\ ~includesFile(activeFilters.selectedPeriods, filePath)
        /\ Len(activeFilters.selectedPeriods) + Cardinality(inflight) < MaxSelected
        /\ alreadyLoaded(filePath) \/ fetchesIssued < MaxFetch
        /\ loadDataset(filePath, "click")
        /\ userActed' = TRUE
        /\ oddClicks' = clicked(oddClicks, filePath)
        /\ UNCHANGED <<callVars, diagVars, failedLoads, server, manifest, storeVars, activeFilters, mpc, buttons, activeButtons, displayVars>>

\* the click handler resumes behind await loadDataset(filePath)
ResumeClick ==
    /\ cont # <<>>
    /\ cont[1].caller = "click"
    /\ activeFilters' = pushPeriod(activeFilters, cont[1].file)
    /\ activeButtons' = updateFilterButtonStates(buttons, activeFilters')
    /\ renderLogs(allLogs, loadedKeys, loadedData, activeFilters')
    /\ cont' = <<>>
    /\ UNCHANGED <<callVars, diagVars, historyVars, server, manifest, loadedKeys, loadedData, mpc, inflight, fetchCount, buttons, userActed>>

(***************************************************************************)
(* The filter controls (src/script.js:320-344).                            *)
(***************************************************************************)
\* a handler that assigns and leaves the page as it is
applyFilter_noRender(af) ==
    /\ activeFilters' = af
    /\ userActed' = TRUE
    /\ UNCHANGED <<callVars, diagVars, historyVars, server, manifest, storeVars, displayVars, mpc, inflight, fetchCount, cont, buttons, activeButtons>>

\* a handler of a filter control: the assignment, then renderLogs
applyFilter(af) ==
    /\ activeFilters' = af
    /\ renderLogs(allLogs, loadedKeys, loadedData, af)
    /\ userActed' = TRUE
    /\ UNCHANGED <<callVars, diagVars, historyVars, server, manifest, loadedKeys, loadedData, mpc, inflight, fetchCount, cont, buttons, activeButtons>>

\* searchInput 'input': activeFilters.search = e.target.value
SearchInput ==
    \E v \in SearchInputs :
        /\ cont = <<>>
        /\ applyFilter([activeFilters EXCEPT !.search = v])

\* sortSelect 'change': activeFilters.sort = e.target.value
SortChange ==
    \E v \in SortInputs :
        /\ cont = <<>>
        /\ applyFilter([activeFilters EXCEPT !.sort = v])

\* regionSelect 'change': activeFilters.region = e.target.value
RegionChange ==
    \E v \in RegionInputs :
        /\ cont = <<>>
        /\ applyFilter([activeFilters EXCEPT !.region = v])

\* severityToggle 'change': activeFilters.criticalOnly = e.target.checked
SeverityChange ==
    \E checked \in BOOLEAN :
        /\ cont = <<>>
        /\ applyFilter([activeFilters EXCEPT !.criticalOnly = checked])

\* granularityToggle 'change': activeFilters.verbose = e.target.checked
GranularityChange ==
    \E checked \in BOOLEAN :
        /\ cont = <<>>
        /\ applyFilter([activeFilters EXCEPT !.verbose = checked])

Next ==
    \/ ManifestResponds
    \/ ManifestFails
    \/ ManifestLoads
    \/ ResumeStartup
    \/ LoadFails
    \/ JsonResolves
    \/ ClickSelected
    \/ ClickUnselected
    \/ ResumeClick
    \/ SearchInput
    \/ SortChange
    \/ RegionChange
    \/ SeverityChange
    \/ GranularityChange

Spec == Init /\ [][Next]_vars

(***************************************************************************)
(* parseSimDate called on its own, on two date strings (a comparator call, *)
(* src/script.js:219-220).  The strings are a prefix, a run of digits and  *)
(* dots and a suffix, or one of a few texts of another shape.              *)
(***************************************************************************)
DatePrefixes == {<<>>, <<"c", ".", " ">>}

DateRuns == {<<"0">>, <<"2">>, <<"6", "5">>, <<"3", "0", "0">>, <<"1", "9", "4", "5">>, <<"3", "5", "0", "0">>, <<"4", ".", "5">>}

DateSuffixes == {<<>>, <<" ", "A", "D">>, <<" ", "B", "C">>, <<" ", "y", "e", "a", "r", "s", " ", "a", "g", "o">>, <<" ", "M", "i", "l", "l", "i", "o", "n", " ", "B", "C">>, <<" ", "m", "i", "l", "l", "i", "o", "n", " ", "y", "e", "a", "r", "s", " ", "a", "g", "o">>, <<" ", "B", "i", "l", "l", "i", "o", "n", " ", "y", "e", "a", "r", "s", " ", "a", "g", "o">>}

DateSpecials == {<<>>, <<"p", "r", "e", "s", "e", "n", "t">>, <<"P", "r", "e", "s", "e", "n", "t", " ", "D", "a", "y">>, <<"n", "e", "a", "r", " ", "f", "u", "t", "u", "r", "e">>, <<"n", "o", " ", "d", "i", "g", "i", "t", "s", " ", "h", "e", "r", "e">>, <<"F", "u", "t", "u", "r", "e", " ", "2", "0", "5", "0", " ", "B", "C">>, <<"1", "2", " ", "y", "e", "a", "r", "s", " ", "a", "g", "o", ",", " ", "a", "t", " ", "p", "r", "e", "s", "e", "n", "t">>, <<"3", " ", "B", "i", "l", "l", "i", "o", "n", ",", " ", "n", "o", "t", " ", "M", "i", "l", "l", "i", "o", "n", ",", " ", "B", "C">>}

DateStrings ==
    {p \o r \o s : p \in DatePrefixes, r \in DateRuns, s \in DateSuffixes} \cup DateSpecials

InitParseSimDate ==
    /\ InitLogs
    /\ InitDiagnostic
    /\ input \in DateStrings \X DateStrings
    /\ output = <<>>

\* valA = parseSimDate(a.date), valB = parseSimDate(b.date)
CallParseSimDate ==
    /\ output = <<>>
    /\ output' = <<parseSimDate(input[1]), parseSimDate(input[2])>>
    /\ UNCHANGED <<logVars, diagVars, input>>

NextParseSimDate == CallParseSimDate

SpecParseSimDate == InitParseSimDate /\ [][NextParseSimDate]_vars

(***************************************************************************)
(* getEra of the earlier variant, called on its own on the date of a log   *)
(* (src/unnamed/part_001:91-115, 139).                                     *)
(***************************************************************************)
\* dateString.match(/(\d+)/): the first run of digits, <<>> for no match
matchDigits(s) ==
    LET starts == {i \in 1..Len(s) : isDigit(s[i])}
    IN  IF starts = {} THEN <<>>
        ELSE LET i == CHOOSE j \in starts : \A k \in starts : j <= k
             IN  SubSeq(s, i, i + runLen(s, i, FALSE) - 1)

\* parseInt on a run of digits
parseInt(run) == digitsVal(run)

\* the year tests with 1500 counted as antiquity
eraOfYear_inclusive(year) ==
    IF year <= 1500 THEN "antiquity"
    ELSE IF year > 2025 THEN "future"
    ELSE "modern"

\* the tests on the year
eraOfYear(year) ==
    IF year < 1500 THEN "antiquity"
    ELSE IF year > 2025 THEN "future"
    ELSE "modern"

\* getEra(dateString); the empty sequence stands for a missing or empty date
getEra(dateString) ==
    IF dateString = <<>> THEN "modern"
    ELSE LET lowerDate == toLowerCase(dateString)
         IN  IF \/ includes(lowerDate, <<"b", "i", "l", "l", "i", "o", "n">>)
                \/ includes(lowerDate, <<"m", "i", "l", "l", "i", "o", "n">>)
                \/ includes(lowerDate, <<"b", "c">>)
                \/ includes(lowerDate, <<"p", "r", "e", "-", "h", "i", "s", "t", "o", "r", "y">>)
             THEN "pre-history"
             ELSE IF includes(lowerDate, <<"p", "r", "e", "s", "e", "n", "t">>) \/ includes(lowerDate, <<"f", "u", "t", "u", "r", "e">>)
                  THEN "future"
             ELSE LET yearMatch == matchDigits(dateString)
                  IN  IF yearMatch # <<>>
                      THEN eraOfYear(parseInt(yearMatch))
                      ELSE "modern"

EraPrefixes == {<<>>, <<"c", ".", " ">>, <<"1", "2", " ", "M", "a", "y", " ">>}

EraYears == {<<"0">>, <<"4", "7", "6">>, <<"1", "4", "9", "9">>, <<"1", "5", "0", "0">>, <<"1", "5", "0", "1">>, <<"1", "9", "9", "1">>, <<"2", "0", "2", "5">>, <<"2", "0", "2", "6">>, <<"3", "0", "0", "0">>}

EraSuffixes == {<<>>, <<" ", "A", "D">>, <<" ", "B", "C">>, <<" ", "-", " ", "2", "0", "0", "0", " ", "A", "D">>, <<" ", "M", "i", "l", "l", "i", "o", "n", " ", "y", "e", "a", "r", "s", " ", "a", "g", "o">>}

EraSpecials == {<<"P", "r", "e", "-", "H", "i", "s", "t", "o", "r", "y">>, <<"N", "e", "a", "r", " ", "F", "u", "t", "u", "r", "e", " ", "2", "1", "0", "0">>, <<"t", "h", "e", " ", "p", "r", "e", "s", "e", "n", "t", " ", "f", "u", "t", "u", "r", "e">>, <<"u", "n", "k", "n", "o", "w", "n">>} \cup DateSpecials

EraStrings ==
    {p \o r \o s : p \in EraPrefixes, r \in EraYears, s \in EraSuffixes} \cup EraSpecials

InitGetEra ==
    /\ InitLogs
    /\ InitDiagnostic
    /\ input \in EraStrings
    /\ output = <<>>

\* const logEra = getEra(log.date)
CallGetEra ==
    /\ output = <<>>
    /\ output' = <<getEra(input)>>
    /\ UNCHANGED <<logVars, diagVars, input>>

NextGetEra == CallGetEra

SpecGetEra == InitGetEra /\ [][NextGetEra]_vars

(***************************************************************************)
(* The diagnostic tool (src/unnamed/part_000:443-655).  It shares no state *)
(* with the log viewer.  An invocation of runDiagnostic is a record of     *)
(* runs: its position (the await it is suspended at, or "done" once it has *)
(* returned), its input, the text it types and how much of it is typed.    *)
(***************************************************************************)
\* the invocations of runDiagnostic in a session
MaxRuns == 3

\* what the user types into the input field
DiagInputs == {<<>>, <<" ", " ">>, <<" ", "h", "i", " ">>}

\* String.prototype.trim: without the blanks at both ends
trim(s) ==
    LET solid == {i \in 1..Len(s) : s[i] # " "}
    IN  IF solid = {} THEN <<>>
        ELSE SubSeq(s, CHOOSE i \in solid : \A j \in solid : i <= j,
                       CHOOSE i \in solid : \A j \in solid : i >= j)

\* the fields of the response that are tried, in this order
ResponseFields == <<"reply", "response", "text", "result", "output", "message", "content">>

\* the bodies the endpoint answers with; <<>> is a field that is absent or
\* the empty string
NoFields == [f \in {ResponseFields[i] : i \in 1..Len(ResponseFields)} |-> <<>>]

ApiResponses ==
    {NoFields,
     [NoFields EXCEPT !["reply"] = <<"O", "k">>],
     [NoFields EXCEPT !["message"] = <<" ", "A", " ">>, !["content"] = <<"B">>],
     [NoFields EXCEPT !["reply"] = <<" ">>]}

\* data.reply || data.response || ... || data.content
responseTextOf(data) ==
    LET found == {i \in 1..Len(ResponseFields) : data[ResponseFields[i]] # <<>>}
    IN  IF found = {} THEN <<>>
        ELSE data[ResponseFields[CHOOSE i \in found : \A j \in found : i <= j]]

\* a child of diagnosticOutput: its class, and its text as a fixed message
\* or as characters
outputLine(cls, msg, chars) == [cls |-> cls, msg |-> msg, chars |-> chars]

\* addSystemMessage(message, isError): the paragraph appended
systemMessage(message, isError) ==
    outputLine(IF isError THEN "system-msg error-msg" ELSE "system-msg", message, <<>>)

\* the catch block writing to the console only
catchLines_consoleOnly(message) == <<>>

\* the catch block: the two error lines
catchLines(message) ==
    <<systemMessage(message, TRUE),
      systemMessage("CHECK BROWSER CONSOLE FOR DETAILS.", TRUE)>>

\* getAnonymizedUserID: the stored id, created on first use
getAnonymizedUserID(stored) == IF stored = <<>> THEN <<"uuid">> ELSE stored

\* runDiagnostic up to its first await
runDiagnostic ==
    LET text == trim(userInput)
        existingResponses == {i \in 1..Len(diagnosticOutput) : diagnosticOutput[i].cls = "ai-response"}
        separated == IF existingResponses # {}
                     THEN Append(diagnosticOutput, outputLine("session-separator", "", <<>>))
                     ELSE diagnosticOutput
    IN  IF text = <<>>
        THEN /\ diagnosticOutput' = Append(diagnosticOutput,
                    systemMessage("ERROR: NO INPUT DETECTED. PLEASE DESCRIBE THE GLITCH.", TRUE))
             /\ runs' = Append(runs, [pc |-> "done", input |-> text, text |-> <<>>, typed |-> 0, div |-> 0])
             /\ UNCHANGED <<userInput, runBtnDisabled, storedUserId, postCount>>
        ELSE /\ diagnosticOutput' = separated
                    \o <<outputLine("system-msg user-input-echo", "USER@EARTH:~$", text),
                         outputLine("system-msg", "ANALYZING INPUT:", text)>>
             /\ userInput' = <<>>
             /\ runBtnDisabled' = TRUE
             /\ runs' = Append(runs, [pc |-> "wait1", input |-> text, text |-> <<>>, typed |-> 0, div |-> 0])
             /\ UNCHANGED <<storedUserId, postCount>>

\* the user edits the input field
UserTypes ==
    \E v \in DiagInputs :
        /\ userInput # v
        /\ userInput' = v
        /\ UNCHANGED <<logVars, callVars, runBtnDisabled, diagnosticOutput, runs, storedUserId, postCount>>

\* a click on the run button; a disabled button receives no click
ClickRun ==
    /\ ~runBtnDisabled
    /\ Len(runs) < MaxRuns
    /\ runDiagnostic
    /\ UNCHANGED <<logVars, callVars>>

\* the Enter key starting a run whatever the state of the button
PressEnter_unguarded ==
    /\ Len(runs) < MaxRuns
    /\ runDiagnostic
    /\ UNCHANGED <<logVars, callVars>>

\* the Enter key in the input field
PressEnter ==
    /\ ~runBtnDisabled
    /\ Len(runs) < MaxRuns
    /\ runDiagnostic
    /\ UNCHANGED <<logVars, callVars>>

\* the first two of the 500 ms timers fire: the next scanning message
ScanTimer ==
    \E r \in 1..Len(runs) :
        /\ runs[r].pc \in {"wait1", "wait2"}
        /\ diagnosticOutput' = Append(diagnosticOutput,
                systemMessage(IF runs[r].pc = "wait1" THEN "SCANNING SIMULATION LOGS..."
                              ELSE "CROSS-REFERENCING USER PROFILE...", FALSE))
        /\ runs' = [runs EXCEPT ![r].pc = IF @ = "wait1" THEN "wait2" ELSE "wait3"]
        /\ UNCHANGED <<logVars, callVars, userInput, runBtnDisabled, storedUserId, postCount>>

\* the third timer fires: the last message, then the request is sent
SendRequest ==
    \E r \in 1..Len(runs) :
        /\ runs[r].pc = "wait3"
        /\ diagnosticOutput' = Append(diagnosticOutput,
                systemMessage("GENERATING DIAGNOSTIC REPORT...", FALSE))
        /\ storedUserId' = getAnonymizedUserID(storedUserId)
        /\ postCount' = postCount + 1
        /\ runs' = [runs EXCEPT ![r].pc = "fetch"]
        /\ UNCHANGED <<logVars, callVars, userInput, runBtnDisabled>>

\* the catch sending the request once more
failRun_resend(r, message) ==
    /\ diagnosticOutput' = diagnosticOutput \o catchLines(message)
    /\ runBtnDisabled' = FALSE
    /\ postCount' = postCount + 1
    /\ runs' = [runs EXCEPT ![r].pc = "done"]
    /\ UNCHANGED <<logVars, callVars, userInput, storedUserId>>

\* an error thrown in the try block: the catch, then the finally
failRun(r, message) ==
    /\ diagnosticOutput' = diagnosticOutput \o catchLines(message)
    /\ runBtnDisabled' = FALSE
    /\ runs' = [runs EXCEPT ![r].pc = "done"]
    /\ UNCHANGED <<logVars, callVars, userInput, storedUserId, postCount>>

\* the request fails on the network
ApiRejects ==
    \E r \in 1..Len(runs) :
        /\ runs[r].pc = "fetch"
        /\ failRun(r, "ERROR: Failed to fetch")

\* the response arrives, ok or not
ApiResponds ==
    \E r \in 1..Len(runs), ok \in BOOLEAN :
        /\ runs[r].pc = "fetch"
        /\ IF ok
           THEN /\ runs' = [runs EXCEPT ![r].pc = "json"]
                /\ UNCHANGED <<logVars, callVars, userInput, runBtnDisabled, diagnosticOutput, storedUserId, postCount>>
           ELSE failRun(r, "ERROR: API returned status 500")

\* response.json() rejects: the body is no JSON
ApiJsonRejects ==
    \E r \in 1..Len(runs) :
        /\ runs[r].pc = "json"
        /\ failRun(r, "ERROR: Unexpected end of JSON input")

\* response.json() resolves: without a text field the run fails, else the
\* response element is created and the report announced
ApiJsonResolves ==
    \E r \in 1..Len(runs), data \in ApiResponses :
        /\ runs[r].pc = "json"
        /\ IF responseTextOf(data) = <<>>
           THEN failRun(r, "ERROR: MALFORMED_RESPONSE: No valid text field found in API response")
           ELSE /\ diagnosticOutput' = diagnosticOutput
                        \o <<outputLine("ai-response", "", <<>>),
                             systemMessage("REPORT GENERATED. DISPLAYING...", FALSE)>>
                /\ runs' = [runs EXCEPT ![r].pc = "wait4",
                                         ![r].text = trim(responseTextOf(data)),
                                         ![r].div = Len(diagnosticOutput) + 1]
                /\ UNCHANGED <<logVars, callVars, userInput, runBtnDisabled, storedUserId, postCount>>

\* type() that sets no timer and never resolves once the text is typed
type_stalls(r) ==
    /\ runs[r].typed < Len(runs[r].text)
    /\ diagnosticOutput' = [diagnosticOutput EXCEPT ![runs[r].div].chars =
                               Append(@, runs[r].text[runs[r].typed + 1])]
    /\ runs' = [runs EXCEPT ![r].typed = @ + 1, ![r].pc = "typing"]
    /\ UNCHANGED runBtnDisabled

\* one call of type() of typeWriter for the run: the next character, or, at
\* the end of the text, the promise resolves and runDiagnostic goes on to
\* its last message and its finally block
type(r) ==
    IF runs[r].typed < Len(runs[r].text)
    THEN /\ diagnosticOutput' = [diagnosticOutput EXCEPT ![runs[r].div].chars =
                                    Append(@, runs[r].text[runs[r].typed + 1])]
         /\ runs' = [runs EXCEPT ![r].typed = @ + 1, ![r].pc = "typing"]
         /\ UNCHANGED runBtnDisabled
    ELSE /\ diagnosticOutput' = Append(diagnosticOutput,
                systemMessage("DIAGNOSTIC COMPLETE. GOOD LUCK, UNIT.", FALSE))
         /\ runBtnDisabled' = FALSE
         /\ runs' = [runs EXCEPT ![r].pc = "done"]

\* the 300 ms timer fires: typeWriter starts with its first call of type()
StartTyping ==
    \E r \in 1..Len(runs) :
        /\ runs[r].pc = "wait4"
        /\ type(r)
        /\ UNCHANGED <<logVars, callVars, userInput, storedUserId, postCount>>

\* a timer of typeWriter fires
TypeTimer ==
    \E r \in 1..Len(runs) :
        /\ runs[r].pc = "typing"
        /\ type(r)
        /\ UNCHANGED <<logVars, callVars, userInput, storedUserId, postCount>>

NextDiagnostic ==
    \/ UserTypes
    \/ ClickRun
    \/ PressEnter
    \/ ScanTimer
    \/ SendRequest
    \/ ApiRejects
    \/ ApiResponds
    \/ ApiJsonRejects
    \/ ApiJsonResolves
    \/ StartTyping
    \/ TypeTimer

SpecDiagnostic == Init /\ [][NextDiagnostic]_vars

\* a continuation of a run: a timer fires, or the request or its body
\* resolves or rejects
runContinues ==
    \/ ScanTimer
    \/ SendRequest
    \/ ApiRejects
    \/ ApiResponds
    \/ ApiJsonRejects
    \/ ApiJsonResolves
    \/ StartTyping
    \/ TypeTimer

\* the diagnostic tool where timers fire and requests settle
SpecDiagnosticLive == SpecDiagnostic /\ WF_vars(runContinues)

(***************************************************************************)
(* Properties.                                                             *)
(***************************************************************************)

\* C1: at most one network fetch is ever issued for any given shard during
\* the session, whatever the interleaving of clicks and the startup load.
C1_AtMostOneFetchPerShard == \A f \in Files : fetchCount[f] <= 1

\* this step calls loadDataset(f): either a fetch of f is issued, or the call
\* returns at once and its caller is the next to resume
callsLoadDataset(f) ==
    /\ cont = <<>>
    /\ \/ \E a \in inflight' \ inflight : a.file = f
       \/ cont' # <<>> /\ cont'[1].file = f /\ inflight' = inflight

\* C2: loadDataset(f) for a shard f that loadedData already holds issues no
\* fetch and leaves manifest, loadedData, allLogs and activeFilters unchanged.
C2_CachedLoadIsNoOp ==
    [][\A f \in Files :
          (IsLoaded(loadedKeys, f) /\ callsLoadDataset(f)) =>
              /\ fetchCount' = fetchCount
              /\ inflight' = inflight
              /\ UNCHANGED <<manifest, loadedKeys, loadedData, allLogs, activeFilters>>]_vars

\* C2 witness: the year shard was fetched once, stored and shown in the
\* ticker, its period was deselected, and a click has called loadDataset on
\* it again, which returned at once.
C2_Witness ==
    /\ cont = <<[caller |-> "click", file |-> YearFile]>>
    /\ loadedKeys = <<YearFile>>
    /\ fetchCount[YearFile] = 1
    /\ inflight = {}
    /\ ticker.kind = "items"
    /\ activeFilters.selectedPeriods = <<>>

\* the object occurs exactly once in the array
occursOnce(array, log) ==
    Cardinality({k \in 1..Len(array) : array[k].ref = log.ref}) = 1

\* allLogs is the concatenation of the cached arrays in key order, every
\* cached array is the shard's records, and every record of every cached
\* shard occurs in allLogs exactly once
mergeCorrect(lk, ld, al) ==
    /\ al = concatAll(lk, ld)
    /\ \A i, j \in 1..Len(lk) : lk[i] = lk[j] => i = j
    /\ \A i \in 1..Len(lk) :
          /\ Len(ld[lk[i]]) = Len(server.shards[lk[i]])
          /\ \A k \in 1..Len(ld[lk[i]]) :
                /\ ld[lk[i]][k].id = server.shards[lk[i]][k].id
                /\ occursOnce(al, ld[lk[i]][k])

\* C3: allLogs equals the concatenation of the record arrays of the cached
\* shards in the order the shards were first inserted (a key, once inserted,
\* keeps its place; new keys go to the end), each record of each cached shard
\* occurring exactly once, also after two loads of the same shard completed.
C3_MergeCorrect ==
    /\ mergeCorrect(loadedKeys, loadedData, allLogs)
    /\ [][/\ mergeCorrect(loadedKeys', loadedData', allLogs')
          /\ \/ loadedKeys' = loadedKeys
             \/ \E f \in Files : ~IsLoaded(loadedKeys, f) /\ loadedKeys' = Append(loadedKeys, f)]_vars

\* C3 witness: both shards are cached, the era shard first, and allLogs holds
\* the records of both.
C3_Witness ==
    /\ loadedKeys = <<EraFile, YearFile>>
    /\ Len(allLogs) = Len(server.shards[EraFile]) + Len(server.shards[YearFile])
    /\ Len(allLogs) >= 3
    /\ cont = <<>>

\* the number of positions of the array that hold the object
occurrences(array, log) ==
    Cardinality({k \in 1..Len(array) : array[k].ref = log.ref})

\* C4: every record that getFilteredLogs returns is a record of allLogs that
\* belongs to the loaded array of some shard in selectedPeriods, and occurs in
\* the output no more often than in allLogs.
C4_OnlySelectedShards ==
    \A out \in getFilteredLogs(allLogs, loadedKeys, loadedData, activeFilters) :
        \A k \in 1..Len(out) :
            /\ includesObject(allLogs, out[k])
            /\ occurrences(out, out[k]) <= occurrences(allLogs, out[k])
            /\ \E i \in 1..Len(activeFilters.selectedPeriods) :
                  LET f == activeFilters.selectedPeriods[i]
                  IN  /\ \E j \in 1..Len(loadedKeys) : loadedKeys[j] = f
                      /\ \E j \in 1..Len(loadedData[f]) : loadedData[f][j].ref = out[k].ref

\* C4 witness: two shards are cached, one of them selected; the feed shows
\* records while allLogs also holds the records of the unselected shard.
C4_Witness ==
    /\ cont = <<>>
    /\ Len(loadedKeys) = 2
    /\ Len(activeFilters.selectedPeriods) = 1
    /\ feed.kind = "cards"
    /\ Len(feed.cards) < Len(allLogs)
    /\ \E out \in getFilteredLogs(allLogs, loadedKeys, loadedData, activeFilters) : out = feed.cards

\* the strings of a record that the search looks into
searchedStrings(log) ==
    {log.title, log.description, log.version}
        \cup {log.keywords[k] : k \in 1..Len(log.keywords)}

\* the five conditions of the claim, on the current store and filters
inSelectedLoadedShard(log) ==
    \E f \in Files :
        /\ \E i \in 1..Len(activeFilters.selectedPeriods) : activeFilters.selectedPeriods[i] = f
        /\ \E j \in 1..Len(loadedKeys) : loadedKeys[j] = f
        /\ \E j \in 1..Len(loadedData[f]) : loadedData[f][j].ref = log.ref

granularityHolds(log) == activeFilters.verbose \/ log.importance # "low"

searchHolds(log) ==
    \E s \in searchedStrings(log) :
        includes(toLowerCase(s), toLowerCase(activeFilters.search))

regionHolds(log) ==
    LET wanted == toLowerCase(activeFilters.region)
        region == toLowerCase(log.region)
    IN  \/ wanted = <<"a", "l", "l">>
        \/ /\ wanted = <<"s", "o", "l", "_", "s", "y", "s", "t", "e", "m">>
           /\ \E k \in {<<"m", "a", "r", "s">>, <<"m", "o", "o", "n">>, <<"s", "o", "l", "a", "r">>, <<"e", "a", "r", "t", "h">>, <<"g", "l", "o", "b", "a", "l", "_", "e", "a", "r", "t", "h">>} : includes(region, k)
        \/ /\ wanted \notin {<<"a", "l", "l">>, <<"s", "o", "l", "_", "s", "y", "s", "t", "e", "m">>}
           /\ includes(region, wanted)

severityHolds(log) ==
    \/ ~activeFilters.criticalOnly
    \/ log.type = "Critical Event"
    \/ log.is_active

\* C5: a record of allLogs is in the getFilteredLogs output if and only if it
\* comes from a selected and loaded shard and passes granularity and search
\* and region and severity; no predicate overrides another.
C5_PredicateComposition ==
    \A out \in getFilteredLogs(allLogs, loadedKeys, loadedData, activeFilters) :
        \A k \in 1..Len(allLogs) :
            (\E i \in 1..Len(out) : out[i].ref = allLogs[k].ref)
                <=> /\ inSelectedLoadedShard(allLogs[k])
                    /\ granularityHolds(allLogs[k])
                    /\ searchHolds(allLogs[k])
                    /\ regionHolds(allLogs[k])
                    /\ severityHolds(allLogs[k])

\* C5 witness: both shards are selected, search, region and severity are all
\* set, and the feed shows some of the selected records and not others.
C5_Witness ==
    /\ cont = <<>>
    /\ activeFilters.search # <<>>
    /\ activeFilters.region # <<"a", "l", "l">>
    /\ activeFilters.criticalOnly
    /\ Len(loadedKeys) = 2
    /\ \A f \in Files : inSelectedLoadedShard(loadedData[f][1])
    /\ feed.kind = "cards"
    /\ Len(feed.cards) < Len(allLogs)
    /\ \E out \in getFilteredLogs(allLogs, loadedKeys, loadedData, activeFilters) : out = feed.cards

\* C6: every adjacent pair (a, b) of a getFilteredLogs output satisfies
\* parseSimDate(a.date) <= parseSimDate(b.date) under 'date-asc' and
\* parseSimDate(a.date) >= parseSimDate(b.date) under any other sort, for
\* every date string a record can carry.
C6_SortedByDate ==
    \A out \in getFilteredLogs(allLogs, loadedKeys, loadedData, activeFilters) :
        \A k \in 1..(Len(out) - 1) :
            IF activeFilters.sort = "date-asc"
            THEN numLeq(parseSimDate(out[k].date), parseSimDate(out[k + 1].date))
            ELSE numGeq(parseSimDate(out[k].date), parseSimDate(out[k + 1].date))

\* the records the ticker shows
tickerRecords(t) == {t.items[i] : i \in 1..Len(t.items)}

\* C7: a change of criticalOnly, with the re-render that follows it, never
\* changes the set of records displayed in the ticker.
C7_TickerIndependentOfSeverity ==
    [][activeFilters'.criticalOnly # activeFilters.criticalOnly =>
          tickerRecords(ticker') = tickerRecords(ticker)]_vars

\* the items of the records of allLogs with is_active === true
activeItems ==
    LET active == SelectSeq(allLogs, isActiveLog)
    IN  [i \in 1..Len(active) |-> tickerItem(active[i])]

\* C8: after every completed renderLogs call the ticker shows exactly the
\* records of the current allLogs with is_active === true (no record when
\* there is none), whatever the filters and also when the feed is empty.
C8_TickerShowsAllActive ==
    (cont = <<>> /\ logCount >= 0) =>
        /\ tickerRecords(ticker) = {activeItems[i] : i \in 1..Len(activeItems)}
        /\ Len(ticker.items) = 2 * Len(activeItems)

\* C9: when the manifest names the shard of the current year, that shard
\* holds one record with is_active true and importance not 'low', its fetch
\* succeeds and no user event came in between, then once fetchManifest is
\* done selectedPeriods is exactly that shard, the feed shows exactly that
\* record and the ticker shows that record's item twice.
C9_StartupEndToEnd ==
    \A f \in Files :
        ( /\ mpc = "done"
          /\ ~userActed
          /\ manifest # <<>>
          /\ \E i \in 1..Len(manifest[1].years_available) :
                /\ manifest[1].years_available[i].year = manifest[1].current_year
                /\ manifest[1].years_available[i].file = f
          /\ \E j \in 1..Len(loadedKeys) : loadedKeys[j] = f
          /\ Len(server.shards[f]) = 1
          /\ server.shards[f][1].is_active
          /\ server.shards[f][1].importance # "low" )
        => /\ activeFilters.selectedPeriods = <<f>>
           /\ logCount = 1
           /\ feed.kind = "cards"
           /\ Len(feed.cards) = 1
           /\ feed.cards[1].id = server.shards[f][1].id
           /\ ticker.kind = "items"
           /\ ticker.items = <<tickerItem(server.shards[f][1]), tickerItem(server.shards[f][1])>>

\* C9 witness: fetchManifest is done without any user event and the shard of
\* the current year, one active record, is cached.
C9_Witness ==
    /\ mpc = "done"
    /\ ~userActed
    /\ loadedKeys = <<YearFile>>
    /\ Len(server.shards[YearFile]) = 1
    /\ server.shards[YearFile][1].is_active
    /\ feed.kind = "cards"

\* C10: when the fetch of shard f fails, loadDataset returns to its caller,
\* f has no entry in loadedData, and loadedData and allLogs are unchanged.
C10_FailedLoadLeavesShardAbsent ==
    [][\A a \in inflight :
          (/\ inflight' = inflight \ {a}
           /\ \A j \in 1..Len(loadedData'[a.file]) : loadedData'[a.file][j].ref[2] # a.gen)
          => /\ cont' = <<[caller |-> a.caller, file |-> a.file]>>
             /\ UNCHANGED <<loadedKeys, loadedData, allLogs>>
             /\ \A j \in 1..Len(loadedKeys') : loadedKeys'[j] # a.file]_vars

\* C11: if the manifest fetch fails or its response is not ok, fetchManifest
\* returns through its catch: the feed is replaced by the static error
\* message, and from then on there is no manifest, no period button, no shard
\* fetch issued or pending, and loadedData, allLogs and selectedPeriods are
\* empty.
C11_ManifestFailureIsFatal ==
    /\ [](mpc = "failed" =>
            /\ manifest = <<>>
            /\ buttons = {}
            /\ activeButtons = {}
            /\ \A f \in Files : fetchCount[f] = 0 /\ loadedData[f] = <<>>
            /\ inflight = {}
            /\ cont = <<>>
            /\ loadedKeys = <<>>
            /\ allLogs = <<>>
            /\ activeFilters.selectedPeriods = <<>>)
    /\ [][(mpc # "failed" /\ mpc' = "failed") =>
            /\ mpc \in {"fetch", "json"}
            /\ feed' = [kind |-> "error", cards |-> <<>>]
            /\ UNCHANGED <<manifest, storeVars, activeFilters, inflight, fetchCount, buttons>>]_vars

\* C11 witness: the manifest fetch has failed and the feed shows the error
\* message.
C11_Witness ==
    /\ mpc = "failed"
    /\ feed.kind = "error"
    /\ buttons = {}
    /\ allLogs = <<>>

\* the objects the feed shows
feedRefs(f) == {f.cards[i].ref : i \in 1..Len(f.cards)}

\* C12: while verbose is false no record of importance 'low' is in the feed
\* or in any getFilteredLogs output, whatever its type, is_active and the
\* other filters; a change of verbose from false to true, all else equal,
\* removes nothing from the feed and adds exactly the low-importance records
\* that pass the period, search, region and severity conditions.
C12_Granularity ==
    /\ [](~activeFilters.verbose =>
            /\ \A i \in 1..Len(feed.cards) : feed.cards[i].importance # "low"
            /\ \A out \in getFilteredLogs(allLogs, loadedKeys, loadedData, activeFilters) :
                  \A i \in 1..Len(out) : out[i].importance # "low")
    /\ [][(/\ ~activeFilters.verbose
           /\ activeFilters' = [activeFilters EXCEPT !.verbose = TRUE]) =>
            /\ feedRefs(feed) \subseteq feedRefs(feed')
            /\ \A k \in 1..Len(allLogs) :
                  (allLogs[k].ref \in feedRefs(feed') \ feedRefs(feed))
                      <=> /\ allLogs[k].importance = "low"
                          /\ inSelectedLoadedShard(allLogs[k])
                          /\ searchHolds(allLogs[k])
                          /\ regionHolds(allLogs[k])
                          /\ severityHolds(allLogs[k])]_vars

\* C12 witness: verbose and criticalOnly are on and the feed shows a record
\* of importance 'low' that is active, next to one of another importance.
C12_Witness ==
    /\ cont = <<>>
    /\ activeFilters.verbose
    /\ activeFilters.criticalOnly
    /\ \E i, j \in 1..Len(feed.cards) :
          /\ feed.cards[i].importance = "low"
          /\ feed.cards[i].is_active
          /\ feed.cards[j].importance # "low"

\* sub occurs in s: s is some prefix, then sub, then some suffix
occursIn(s, sub) ==
    \E pre, post \in 0..Len(s) :
        /\ pre + Len(sub) + post = Len(s)
        /\ \A i \in 1..Len(sub) : s[pre + i] = sub[i]

\* the region rule of the claim for a filter value and a record's region
regionRule(value, region) ==
    IF value = <<"s", "o", "l", "_", "s", "y", "s", "t", "e", "m">>
    THEN \E k \in {<<"m", "a", "r", "s">>, <<"m", "o", "o", "n">>, <<"s", "o", "l", "a", "r">>, <<"e", "a", "r", "t", "h">>, <<"g", "l", "o", "b", "a", "l", "_", "e", "a", "r", "t", "h">>} :
            occursIn(toLowerCase(region), k)
    ELSE IF value = <<"a", "l", "l">> THEN TRUE
    ELSE occursIn(toLowerCase(region), toLowerCase(value))

\* C13: with region 'sol_system' a record matches iff its lower-cased region
\* contains one of mars, moon, solar, earth, global_earth ('Mars_Colony'
\* matches, 'Europe_West' does not); with 'all' every record matches; with
\* any other value it matches iff its lower-cased region contains the
\* lower-cased value.  A record that passes the other conditions is in the
\* getFilteredLogs output iff it matches.
C13_RegionFilter ==
    /\ \A k \in 1..Len(allLogs) :
          /\ matchesRegion(allLogs[k], activeFilters)
                <=> regionRule(activeFilters.region, allLogs[k].region)
          /\ (activeFilters.region = <<"s", "o", "l", "_", "s", "y", "s", "t", "e", "m">> /\ allLogs[k].region = <<"M", "a", "r", "s", "_", "C", "o", "l", "o", "n", "y">>)
                => matchesRegion(allLogs[k], activeFilters)
          /\ (activeFilters.region = <<"s", "o", "l", "_", "s", "y", "s", "t", "e", "m">> /\ allLogs[k].region = <<"E", "u", "r", "o", "p", "e", "_", "W", "e", "s", "t">>)
                => ~matchesRegion(allLogs[k], activeFilters)
    /\ \A out \in getFilteredLogs(allLogs, loadedKeys, loadedData, activeFilters) :
          \A k \in 1..Len(allLogs) :
              (/\ inSelectedLoadedShard(allLogs[k])
               /\ granularityHolds(allLogs[k])
               /\ searchHolds(allLogs[k])
               /\ severityHolds(allLogs[k]))
                  => ((\E i \in 1..Len(out) : out[i].ref = allLogs[k].ref)
                        <=> regionRule(activeFilters.region, allLogs[k].region))

\* C13 witness: under 'sol_system' the feed shows the record of Mars_Colony
\* and not the selected record of Europe_West that passes the other
\* conditions.
C13_Witness ==
    /\ cont = <<>>
    /\ activeFilters.region = <<"s", "o", "l", "_", "s", "y", "s", "t", "e", "m">>
    /\ \E i \in 1..Len(feed.cards) : feed.cards[i].region = <<"M", "a", "r", "s", "_", "C", "o", "l", "o", "n", "y">>
    /\ \E k \in 1..Len(allLogs) :
          /\ allLogs[k].region = <<"E", "u", "r", "o", "p", "e", "_", "W", "e", "s", "t">>
          /\ inSelectedLoadedShard(allLogs[k])
          /\ granularityHolds(allLogs[k])
          /\ searchHolds(allLogs[k])
          /\ severityHolds(allLogs[k])
          /\ allLogs[k].ref \notin feedRefs(feed)

\* two results are the same number
sameNumber(a, b) ==
    /\ a.kind = b.kind
    /\ a.kind = "num" => cmpFinite(a, b) = 0

\* the text holds the marker, in any case of letters
mentions(text, marker) == occursIn(toLowerCase(text), marker)

\* the rules of the claim, in their order, on a date string and its result
followsRules(text, val) ==
    IF text = <<>> THEN val = NegInfinity
    ELSE IF mentions(text, <<"p", "r", "e", "s", "e", "n", "t">>) THEN sameNumber(val, IntNum(2026))
    ELSE IF mentions(text, <<"f", "u", "t", "u", "r", "e">>) THEN sameNumber(val, IntNum(3000))
    ELSE IF matchNumRun(text) = <<>> THEN sameNumber(val, IntNum(0))
    ELSE LET first == parseFloat(matchNumRun(text))
             scale == IF mentions(text, <<"b", "i", "l", "l", "i", "o", "n">>) THEN 9
                      ELSE IF mentions(text, <<"m", "i", "l", "l", "i", "o", "n">>) THEN 6 ELSE 0
             minus == mentions(text, <<"a", "g", "o">>) \/ mentions(text, <<"b", "c">>)
         IN  IF first.kind # "num" THEN val.kind = first.kind
             ELSE sameNumber(val, Num(minus, first.n, first.e + scale))

\* C14: parseSimDate applies its rules in the order empty, 'present',
\* 'future', first numeric run, billion/million multiplier, ago/bc negation:
\* 'present' gives 2026, 'near future' 3000, '65 Million BC' -65000000,
\* '1945' 1945, '' -Infinity and 'no digits here' 0; a string containing
\* 'present' gives 2026 and one containing 'future' and not 'present' gives
\* 3000 whatever else it contains.
C14_ParseRulesInOrder ==
    output # <<>> =>
        \A i \in 1..2 :
            /\ followsRules(input[i], output[i])
            /\ input[i] = <<"p", "r", "e", "s", "e", "n", "t">> => sameNumber(output[i], IntNum(2026))
            /\ input[i] = <<"n", "e", "a", "r", " ", "f", "u", "t", "u", "r", "e">> => sameNumber(output[i], IntNum(3000))
            /\ input[i] = <<"6", "5", " ", "M", "i", "l", "l", "i", "o", "n", " ", "B", "C">> => sameNumber(output[i], IntNum(-65000000))
            /\ input[i] = <<"1", "9", "4", "5">> => sameNumber(output[i], IntNum(1945))
            /\ input[i] = <<>> => output[i].kind = "ninf"
            /\ input[i] = <<"n", "o", " ", "d", "i", "g", "i", "t", "s", " ", "h", "e", "r", "e">> => sameNumber(output[i], IntNum(0))
            /\ input[i] = <<"1", "2", " ", "y", "e", "a", "r", "s", " ", "a", "g", "o", ",", " ", "a", "t", " ", "p", "r", "e", "s", "e", "n", "t">> => sameNumber(output[i], IntNum(2026))
            /\ input[i] = <<"F", "u", "t", "u", "r", "e", " ", "2", "0", "5", "0", " ", "B", "C">> => sameNumber(output[i], IntNum(3000))

\* C14 witness: parseSimDate has returned for '65 Million BC' and for a
\* string that holds 'future' besides digits and 'BC'.
C14_Witness ==
    /\ input = <<<<"6", "5", " ", "M", "i", "l", "l", "i", "o", "n", " ", "B", "C">>, <<"F", "u", "t", "u", "r", "e", " ", "2", "0", "5", "0", " ", "B", "C">>>>
    /\ output # <<>>
    /\ sameNumber(output[1], Num(TRUE, 65, 6))

\* the supported forms with a definite point in time: a whole number N alone
\* or with AD, BC, years ago, Million BC, million years ago or Billion years
\* ago, and 'present'
DatedForms ==
    {[run |-> r, suffix |-> s] : r \in {q \in DateRuns : \A i \in 1..Len(q) : isDigit(q[i])}, s \in DateSuffixes}
        \cup {[run |-> <<"p", "r", "e", "s", "e", "n", "t">>, suffix |-> <<>>]}

formText(f) == f.run \o f.suffix

\* the year a form denotes, the present being 2026; defined for forms whose
\* year is within 2 * 10^9 years of the present
formScale(f) ==
    IF mentions(f.suffix, <<"b", "i", "l", "l", "i", "o", "n">>) THEN 1000000000
    ELSE IF mentions(f.suffix, <<"m", "i", "l", "l", "i", "o", "n">>) THEN 1000000 ELSE 1

formInRange(f) ==
    f.run = <<"p", "r", "e", "s", "e", "n", "t">> \/ digitsVal(f.run) <= 2000000000 \div formScale(f)

pointInTime(f) ==
    IF f.run = <<"p", "r", "e", "s", "e", "n", "t">> THEN 2026
    ELSE IF mentions(f.suffix, <<"a", "g", "o">>) THEN 2026 - digitsVal(f.run) * formScale(f)
    ELSE IF mentions(f.suffix, <<"b", "c">>) THEN -(digitsVal(f.run) * formScale(f))
    ELSE digitsVal(f.run)

\* C15: parseSimDate is order-preserving: for two date strings of the
\* supported forms that denote points in time t1 earlier than t2,
\* parseSimDate of the first is smaller than or equal to parseSimDate of the
\* second.
C15_OrderPreserving ==
    output # <<>> =>
        \A f1, f2 \in {f \in DatedForms : formInRange(f)} :
            (/\ formText(f1) = input[1]
             /\ formText(f2) = input[2]
             /\ pointInTime(f1) < pointInTime(f2))
                => numLeq(output[1], output[2])

\* C16: for every string (and for a missing date) parseSimDate returns
\* -Infinity or a finite number, never a not-a-number value, and a string
\* whose first run of digit-or-dot characters holds no digit yields the
\* fallback 0.
C16_GracefulDegradation ==
    output # <<>> =>
        \A i \in 1..2 :
            /\ output[i].kind \in {"ninf", "num"}
            /\ (/\ ~mentions(input[i], <<"p", "r", "e", "s", "e", "n", "t">>)
                /\ ~mentions(input[i], <<"f", "u", "t", "u", "r", "e">>)
                /\ matchNumRun(input[i]) # <<>>
                /\ \A k \in 1..Len(matchNumRun(input[i])) : ~isDigit(matchNumRun(input[i])[k]))
                    => sameNumber(output[i], IntNum(0))

\* a step in which getFilteredLogs is called (by renderLogs)
callsGetFilteredLogs ==
    \/ ManifestLoads /\ mpc' = "done"
    \/ ResumeStartup
    \/ ClickSelected
    \/ ResumeClick
    \/ SearchInput
    \/ SortChange
    \/ RegionChange
    \/ SeverityChange
    \/ GranularityChange

\* C17: getFilteredLogs has no effect on its inputs: over a step that calls
\* it, allLogs and every array of loadedData keep their contents and order,
\* and activeFilters is what the caller assigned before the call (unchanged
\* where the caller assigns nothing, else changed in the caller's field only).
C17_GetFilteredLogsIsPure ==
    [][callsGetFilteredLogs =>
        /\ allLogs' = allLogs
        /\ loadedKeys' = loadedKeys
        /\ loadedData' = loadedData
        /\ ManifestLoads => activeFilters' = activeFilters
        /\ SearchInput => [activeFilters' EXCEPT !.search = activeFilters.search] = activeFilters
        /\ SortChange => [activeFilters' EXCEPT !.sort = activeFilters.sort] = activeFilters
        /\ RegionChange => [activeFilters' EXCEPT !.region = activeFilters.region] = activeFilters
        /\ SeverityChange => [activeFilters' EXCEPT !.criticalOnly = activeFilters.criticalOnly] = activeFilters
        /\ GranularityChange => [activeFilters' EXCEPT !.verbose = activeFilters.verbose] = activeFilters
        /\ (ResumeStartup \/ ResumeClick \/ ClickSelected) =>
              [activeFilters' EXCEPT !.selectedPeriods = activeFilters.selectedPeriods] = activeFilters]_vars

\* C17 witness: the feed shows every record of allLogs in an order other
\* than that of allLogs, which is still the concatenation of the cached
\* arrays.
C17_Witness ==
    /\ cont = <<>>
    /\ feed.kind = "cards"
    /\ Len(feed.cards) = Len(allLogs)
    /\ Len(allLogs) >= 2
    /\ feed.cards # allLogs
    /\ allLogs = concatAll(loadedKeys, loadedData)

\* the identifiers of the records allLogs holds, each with its shard
recordsOf(al) == {<<al[k].ref[1], al[k].id>> : k \in 1..Len(al)}

\* C18: the shard cache grows monotonically: a shard that has an entry in
\* loadedData has one after every step (deselecting the period, a failed or
\* a completed load of any shard, a filter change), at the same place in the
\* key order, and its records stay in allLogs.
C18_CacheGrowsMonotonically ==
    [][/\ \A i \in 1..Len(loadedKeys) :
            /\ Len(loadedKeys') >= i
            /\ loadedKeys'[i] = loadedKeys[i]
            /\ Len(loadedData'[loadedKeys[i]]) = Len(loadedData[loadedKeys[i]])
            /\ \A k \in 1..Len(loadedData[loadedKeys[i]]) :
                  /\ loadedData'[loadedKeys[i]][k].id = loadedData[loadedKeys[i]][k].id
                  /\ <<loadedKeys[i], loadedData[loadedKeys[i]][k].id>> \in recordsOf(allLogs')
       /\ recordsOf(allLogs) \subseteq recordsOf(allLogs')]_vars

\* C18 witness: both shards are cached, neither is selected any more, a
\* filter is set, and allLogs still holds the records of both.
C18_Witness ==
    /\ cont = <<>>
    /\ inflight = {}
    /\ Len(loadedKeys) = 2
    /\ activeFilters.selectedPeriods = <<>>
    /\ activeFilters.search # <<>>
    /\ feed.kind = "no-results"
    /\ \A f \in Files : \A k \in 1..Len(server.shards[f]) :
          <<f, server.shards[f][k].id>> \in recordsOf(allLogs)

\* the number written by the first digits of the text: the digits from the
\* leftmost digit up to the next character that is no digit
firstYear(text) ==
    LET from == CHOOSE i \in 1..Len(text) : isDigit(text[i]) /\ \A j \in 1..(i - 1) : ~isDigit(text[j])
        upto == CHOOSE k \in from..Len(text) :
                    /\ \A j \in from..k : isDigit(text[j])
                    /\ k = Len(text) \/ ~isDigit(text[k + 1])
    IN  digitsVal(SubSeq(text, from, upto))

\* the rules of the claim, first match first
eraRule(text) ==
    IF text = <<>> THEN "modern"
    ELSE IF \E w \in {<<"b", "i", "l", "l", "i", "o", "n">>, <<"m", "i", "l", "l", "i", "o", "n">>, <<"b", "c">>, <<"p", "r", "e", "-", "h", "i", "s", "t", "o", "r", "y">>} : mentions(text, w) THEN "pre-history"
    ELSE IF \E w \in {<<"p", "r", "e", "s", "e", "n", "t">>, <<"f", "u", "t", "u", "r", "e">>} : mentions(text, w) THEN "future"
    ELSE IF \A i \in 1..Len(text) : ~isDigit(text[i]) THEN "modern"
    ELSE IF firstYear(text) < 1500 THEN "antiquity"
    ELSE IF firstYear(text) > 2025 THEN "future"
    ELSE "modern"

\* C19: getEra returns one of pre-history, antiquity, modern, future, by the
\* first matching rule: missing date -> modern; contains billion, million, bc
\* or pre-history -> pre-history; contains present or future -> future; first
\* digit run as year: below 1500 -> antiquity, above 2025 -> future, else
\* modern (1500 and 2025 are modern, 2026 is future); no digits -> modern.
C19_EraClassifier ==
    output # <<>> =>
        /\ output[1] \in {"pre-history", "antiquity", "modern", "future"}
        /\ output[1] = eraRule(input)
        /\ input = <<"1", "5", "0", "0">> => output[1] = "modern"
        /\ input = <<"2", "0", "2", "5">> => output[1] = "modern"
        /\ input = <<"2", "0", "2", "6">> => output[1] = "future"
        /\ input = <<"1", "4", "9", "9">> => output[1] = "antiquity"
        /\ input = <<"1", "2", " ", "M", "a", "y", " ", "1", "9", "9", "1">> => output[1] = "antiquity"
        /\ input = <<"N", "e", "a", "r", " ", "F", "u", "t", "u", "r", "e", " ", "2", "1", "0", "0">> => output[1] = "future"
        /\ input = <<"F", "u", "t", "u", "r", "e", " ", "2", "0", "5", "0", " ", "B", "C">> => output[1] = "pre-history"

\* C19 witness: getEra has returned modern for '1500 AD'.
C19_Witness ==
    /\ input = <<"1", "5", "0", "0", " ", "A", "D">>
    /\ output = <<"modern">>

\* the error lines of the three kinds of failure
failureLines ==
    {"ERROR: Failed to fetch", "ERROR: API returned status 500", "ERROR: Unexpected end of JSON input", "ERROR: MALFORMED_RESPONSE: No valid text field found in API response"}

\* C20: when the diagnostic request fails (network error, status that is not
\* ok, a body that is no JSON or has none of the expected text fields), the
\* run ends in the same step: an error line is appended to the diagnostic
\* output, runDiagnostic returns, and the run button is enabled again; the
\* button is disabled only while a run is in progress.
C20_DiagnosticFailureHandled ==
    /\ [](runBtnDisabled => \E r \in 1..Len(runs) : runs[r].pc # "done")
    /\ [][\A r \in 1..Len(runs) :
            (runs[r].pc \in {"fetch", "json"} /\ runs'[r].pc \notin {runs[r].pc, "json", "wait4"}) =>
                /\ runs'[r].pc = "done"
                /\ Len(diagnosticOutput') > Len(diagnosticOutput)
                /\ SubSeq(diagnosticOutput', 1, Len(diagnosticOutput)) = diagnosticOutput
                /\ diagnosticOutput'[Len(diagnosticOutput) + 1].cls = "system-msg error-msg"
                /\ diagnosticOutput'[Len(diagnosticOutput) + 1].msg \in failureLines
                /\ ~runBtnDisabled'
                /\ postCount' = postCount]_vars

\* C20 witness: the first run failed on a response without a text field, its
\* error line is in the output, and the user has submitted again: the second
\* run has sent its request.
C20_Witness ==
    /\ Len(runs) = 2
    /\ runs[1].pc = "done"
    /\ runs[1].input # <<>>
    /\ \E i \in 1..Len(diagnosticOutput) :
          diagnosticOutput[i].msg = "ERROR: MALFORMED_RESPONSE: No valid text field found in API response"
    /\ runs[2].pc = "fetch"
    /\ postCount = 2

\* the invocations that have passed the point where the request is sent
sentRuns == {r \in 1..Len(runs) : runs[r].pc \notin {"wait1", "wait2", "wait3"} /\ runs[r].input # <<>>}

\* C21: no automatic retry: every invocation of runDiagnostic with input
\* that is not empty issues exactly one POST request, sent when its third
\* timer fires, whether the request succeeds or fails; an invocation with
\* empty or blank input issues none.
C21_OneRequestPerRun ==
    /\ [](postCount = Cardinality(sentRuns))
    /\ [][/\ postCount' \in {postCount, postCount + 1}
          /\ postCount' = postCount + 1 =>
                \E r \in 1..Len(runs) : runs[r].pc = "wait3" /\ runs'[r].pc = "fetch"
          /\ \A r \in 1..Len(runs') :
                (r > Len(runs) /\ runs'[r].input = <<>>) =>
                    postCount' = postCount /\ runs'[r].pc = "done"]_vars

\* C21 witness: a run with input has failed, a run with blank input was
\* rejected, a third run has completed, and two requests were sent.
C21_Witness ==
    /\ Len(runs) = 3
    /\ \A r \in 1..3 : runs[r].pc = "done"
    /\ runs[1].input # <<>>
    /\ runs[2].input = <<>>
    /\ runs[3].input # <<>>
    /\ \E i \in 1..Len(diagnosticOutput) : diagnosticOutput[i].msg = "ERROR: API returned status 500"
    /\ \E i \in 1..Len(diagnosticOutput) : diagnosticOutput[i].msg = "DIAGNOSTIC COMPLETE. GOOD LUCK, UNIT."
    /\ postCount = 2

\* C22: selectedPeriods is a set: in every reachable state no shard
\* identifier occurs more than once in activeFilters.selectedPeriods.
C22_SelectedPeriodsIsSet ==
    \A i, j \in 1..Len(activeFilters.selectedPeriods) :
        activeFilters.selectedPeriods[i] = activeFilters.selectedPeriods[j] => i = j

\* the feed and the count show a getFilteredLogs result for the given store
\* and filters
displays(fd, n, al, lk, ld, af) ==
    \E out \in getFilteredLogs(al, lk, ld, af) :
        /\ n = Len(out)
        /\ fd = IF Len(out) = 0 THEN [kind |-> "no-results", cards |-> <<>>]
                ELSE [kind |-> "cards", cards |-> out]

\* a step in which a handler of the page runs to its end
handlerCompletes ==
    \/ ClickSelected
    \/ ResumeClick
    \/ SearchInput
    \/ SortChange
    \/ RegionChange
    \/ SeverityChange
    \/ GranularityChange

\* C23: whenever a handler (search, sort, region, severity, granularity,
\* period click) has run to completion, the feed and the count equal a
\* getFilteredLogs result on the loadedData, allLogs and activeFilters of
\* that moment; and a rendered feed never shows the result of an older state
\* while no caller is about to resume.
C23_EveryMutationRerenders ==
    /\ []((cont = <<>> /\ feed.kind \in {"cards", "no-results"}) =>
            displays(feed, logCount, allLogs, loadedKeys, loadedData, activeFilters))
    /\ [][handlerCompletes =>
            displays(feed', logCount', allLogs', loadedKeys', loadedData', activeFilters')]_vars

\* C23 witness: after clicks and changes of search and sort the feed shows
\* records, fewer than allLogs holds, and the count is their number.
C23_Witness ==
    /\ cont = <<>>
    /\ userActed
    /\ activeFilters.search # <<>>
    /\ activeFilters.sort = "date-asc"
    /\ feed.kind = "cards"
    /\ logCount = Len(feed.cards)
    /\ logCount < Len(allLogs)
    /\ Len(activeFilters.selectedPeriods) = 2

\* C24: selected implies loaded: every shard identifier in selectedPeriods,
\* and so every period button shown as active, has an entry in loadedData; a
\* period whose fetch failed is not added to the selection.
C24_SelectedImpliesLoaded ==
    /\ \A i \in 1..Len(activeFilters.selectedPeriods) :
          IsLoaded(loadedKeys, activeFilters.selectedPeriods[i])
    /\ \A b \in activeButtons : IsLoaded(loadedKeys, b)

\* fetchManifest selects the period by itself at startup
autoSelected(f) == manifest # <<>> /\ currentYearFile(manifest[1]) = <<f>>

\* C25: period buttons toggle: for a period that startup does not select by
\* itself and whose fetches all succeeded, once all pending loads have
\* settled the period is selected iff its button was clicked an odd number of
\* times, also when a click arrived while the load started by the previous
\* click was in flight.
C25_ButtonsToggle ==
    \A f \in buttons :
        (/\ inflight = {}
         /\ cont = <<>>
         /\ f \notin failedLoads
         /\ ~autoSelected(f))
            => (includesFile(activeFilters.selectedPeriods, f) <=> f \in oddClicks)

\* the runs in progress: accepted and not yet through their finally block
activeRuns == {r \in 1..Len(runs) : runs[r].pc # "done"}

\* C26: at most one diagnostic run is in progress at any time: from the
\* moment runDiagnostic accepts an input until its finally block runs the run
\* button is disabled, neither a click nor the Enter key starts a second run
\* meanwhile, and at most one request is in flight.
C26_OneRunAtATime ==
    /\ [](/\ Cardinality(activeRuns) <= 1
           /\ activeRuns # {} => runBtnDisabled
           /\ Cardinality({r \in 1..Len(runs) : runs[r].pc \in {"fetch", "json"}}) <= 1)
    /\ [][Len(runs') > Len(runs) =>
            /\ activeRuns = {}
            /\ ~runBtnDisabled
            /\ Len(runs') = Len(runs) + 1]_vars

\* C26 witness: a second run is typing its report, the button is disabled
\* and the user has typed a new input meanwhile.
C26_Witness ==
    /\ Len(runs) = 2
    /\ runs[1].pc = "done"
    /\ runs[1].input # <<>>
    /\ runs[2].pc = "typing"
    /\ runBtnDisabled
    /\ trim(userInput) # <<>>

\* C27: every diagnostic run terminates: given that timers fire and the
\* request resolves or rejects, every started runDiagnostic reaches its
\* finally block and the run button is enabled again, on the failure paths
\* and on the success path, where typeWriter shows one more character per
\* call of type() and resolves after exactly text.length characters.
C27_EveryRunTerminates ==
    /\ \A r \in 1..MaxRuns : [](Len(runs) >= r => <>(Len(runs) >= r /\ runs[r].pc = "done"))
    /\ runBtnDisabled ~> ~runBtnDisabled
    /\ [](\A r \in 1..Len(runs) :
            /\ runs[r].typed <= Len(runs[r].text)
            /\ runs[r].div # 0 =>
                  /\ diagnosticOutput[runs[r].div].cls = "ai-response"
                  /\ diagnosticOutput[runs[r].div].chars = SubSeq(runs[r].text, 1, runs[r].typed))
    /\ [][\A r \in 1..Len(runs) :
            /\ runs'[r].typed \in {runs[r].typed, runs[r].typed + 1}
            /\ (runs[r].pc \in {"wait4", "typing"} /\ runs'[r].pc = "done") =>
                  /\ runs[r].typed = Len(runs[r].text)
                  /\ runs'[r].typed = Len(runs[r].text)
                  /\ ~runBtnDisabled']_vars

\* C27 witness: a run has typed its whole report of two characters and has
\* returned, another has failed and returned, and the button is enabled.
C27_Witness ==
    /\ Len(runs) = 2
    /\ runs[1].pc = "done"
    /\ runs[1].div # 0
    /\ Len(runs[1].text) = 2
    /\ runs[1].typed = 2
    /\ diagnosticOutput[runs[1].div].chars = runs[1].text
    /\ runs[2].pc = "done"
    /\ runs[2].input # <<>>
    /\ runs[2].div = 0
    /\ ~runBtnDisabled

====
